---- MODULE Spec2Model ----
(***************************************************************************)
(* dtools.containers: the functional tuples IFTuple (ftuples/iftuple.py)   *)
(* and Luple (ftuples/wrapped.py).  An instance is its class and its       *)
(* backing tuple _ds; every public method is one action that records the   *)
(* call, what it returned or raised, and how often it invoked the          *)
(* caller's function.  The single-slot container Box (box.py) is the      *)
(* variable item, its _item, with the same record of calls.                *)
(***************************************************************************)
EXTENDS Integers, Sequences, FiniteSets, TLC

\* ---------------------------------------------------------------- bounds
MaxLen == 3           \* longest receiver
MaxElem == 1          \* elements are 0..MaxElem
MaxIdx == 2           \* slice bounds are -MaxIdx..MaxIdx
MaxStep == 2          \* slice steps are -MaxStep..MaxStep
MaxOther == 1         \* longest right operand of + and ==
MaxNum == 2           \* largest factor of *
MaxArgs == 2          \* most positional arguments handed to a constructor
MaxItem == 2          \* a Box holds None or an integer 0..MaxItem

Elem == 0..MaxElem

RECURSIVE SeqsUpTo(_, _)
SeqsUpTo(S, n) ==
    IF n = 0 THEN {<<>>}
    ELSE LET shorter == SeqsUpTo(S, n - 1)
         IN  shorter \cup {Append(q, x) : q \in {r \in shorter : Len(r) = n - 1}, x \in S}

Tuples == SeqsUpTo(Elem, MaxLen)

\* ------------------------------------------------- Python values
\* An optional argument: <<>> is None (not passed), <<v>> is the value v.
None == <<>>
Some(v) == <<v>>
StartVals == {0, 10}
Optionals == {None} \cup {Some(v) : v \in StartVals}

Kinds == {"IFTuple", "Luple"}

\* ------------------------------------------------- the callers' functions
\* unary functions handed to map
MapFns == {"sq", "mod3", "l1"}
Apply1(f, x) ==
    CASE f = "sq"   -> x * x
      [] f = "mod3" -> x % 3
      [] f = "l1"   -> 2 * x + 1

\* binary functions handed to foldl / foldr / accummulate; a is the first
\* positional argument and b the second
FoldFns == {"add", "sub", "lin"}
Apply2(f, a, b) ==
    CASE f = "add" -> a + b
      [] f = "sub" -> a - b
      [] f = "lin" -> 5 * a + 6 * b

\* functions handed to bind: each returns the elements of a sub-sequence
\*   ff   n -> range(n)
\*   tag  n -> (10n, 10n+1, ..., 10n+n)            (n+1 elements, never empty)
\*   two  n -> (n, n+100)                         (always two elements)
BindFns == {"ff", "tag", "two"}
ApplyB(f, n) ==
    CASE f = "ff"  -> [k \in 1..n |-> k - 1]
      [] f = "tag" -> [k \in 1..(n + 1) |-> 10 * n + k - 1]
      [] f = "two" -> <<n, n + 100>>

\* ------------------------------------------------- dtools.fp.iterables
FM == {"CONCAT", "MERGE", "EXHAUST"}

\* concat(*iterables): each iterable drained in turn
RECURSIVE concat(_)
concat(its) ==
    IF its = <<>> THEN <<>> ELSE Head(its) \o concat(Tail(its))

\* merge(*iterables): one value is pulled from every iterator in turn; the
\* round is yielded only when every iterator delivered, and the first
\* StopIteration ends the merge (the partial round is dropped).
RECURSIVE mergeRound(_, _, _)
mergeRound(its, ii, values) ==
    IF ii > Len(its) THEN [stop |-> FALSE, its |-> its, values |-> values]
    ELSE IF its[ii] = <<>> THEN [stop |-> TRUE, its |-> its, values |-> values]
    ELSE mergeRound([its EXCEPT ![ii] = Tail(@)], ii + 1, Append(values, Head(its[ii])))

RECURSIVE mergeLoop(_)
mergeLoop(its) ==
    LET r == mergeRound(its, 1, <<>>)
    IN  IF r.stop THEN <<>> ELSE r.values \o mergeLoop(r.its)

merge(its) == IF Len(its) > 0 THEN mergeLoop(its) ELSE <<>>

\* exhaust(*iterables): as merge, but an exhausted iterator is deleted from
\* the list and the round goes on with the next one; values pulled in an
\* unfinished round are yielded at the end.
RECURSIVE exhaustLoop(_, _, _, _)
exhaustLoop(its, ii, values, numIters) ==
    IF ii < numIters
    THEN IF its[ii + 1] = <<>>
         THEN IF numIters - 1 < 1
              THEN values
              ELSE exhaustLoop(SubSeq(its, 1, ii) \o SubSeq(its, ii + 2, Len(its)),
                               ii, values, numIters - 1)
         ELSE exhaustLoop([its EXCEPT ![ii + 1] = Tail(@)], ii + 1,
                          Append(values, Head(its[ii + 1])), numIters)
    ELSE values \o exhaustLoop(its, 0, <<>>, numIters)

exhaust(its) == IF Len(its) > 0 THEN exhaustLoop(its, 0, <<>>, Len(its)) ELSE <<>>

\* accumulate(iterable, f, initial): the running folds; with an initial
\* value that value is yielded first
RECURSIVE accumulateLoop(_, _, _)
accumulateLoop(it, f, acc) ==
    IF it = <<>> THEN <<acc>>
    ELSE <<acc>> \o accumulateLoop(Tail(it), f, Apply2(f, acc, Head(it)))

accumulate(iterable, f, initial) ==
    IF iterable = <<>>
    THEN IF initial = None THEN <<>> ELSE <<initial[1]>>
    ELSE IF initial # None
         THEN <<initial[1]>> \o accumulateLoop(Tail(iterable), f,
                                               Apply2(f, initial[1], Head(iterable)))
         ELSE accumulateLoop(Tail(iterable), f, Head(iterable))

\* number of times accumulate invokes f
accumulateCalls(iterable, initial) ==
    IF initial # None THEN Len(iterable)
    ELSE IF iterable = <<>> THEN 0 ELSE Len(iterable) - 1

\* ------------------------------------------------- results of a call
NoInstance == [kind |-> "none", ds |-> <<>>]
Instance(k, elems) == [kind |-> k, ds |-> elems]

Returned(inst, n) == [ret |-> inst, val |-> None, err |-> "none", calls |-> n]
Scalar(v, n)      == [ret |-> NoInstance, val |-> Some(v), err |-> "none", calls |-> n]
Raised(e, n)      == [ret |-> NoInstance, val |-> None, err |-> e, calls |-> n]

\* builtin map(f, self) materialised by the constructor
RECURSIVE pymap(_, _)
pymap(f, s) == IF s = <<>> THEN <<>> ELSE <<Apply1(f, Head(s))>> \o pymap(f, Tail(s))

RECURSIVE pymapB(_, _)
pymapB(f, s) == IF s = <<>> THEN <<>> ELSE <<ApplyB(f, Head(s))>> \o pymapB(f, Tail(s))

\* ------------------------------------------------- methods
\* __init__ that ignores the arguments after the first
new_FirstOnly(k, dss, n) ==
    Returned(Instance(k, IF Len(dss) >= 1 THEN dss[1] ELSE <<>>), n)

\* __init__(self, *dss): dss is the tuple of positional arguments, each an
\* iterable given by its elements; n is the number of calls of the caller's
\* function made while the argument was materialised
new(k, dss, n) ==
    IF Len(dss) <= 1
    THEN Returned(Instance(k, IF Len(dss) = 1 THEN dss[1] ELSE <<>>), n)
    ELSE Raised("ValueError", n)

\* map that walks the receiver backwards
map_Backwards(k, s, f) == new(k, <<pymap(f, [i \in 1..Len(s) |-> s[Len(s) + 1 - i]])>>, Len(s))

\* map(self, f)
map(k, s, f) == new(k, <<pymap(f, s)>>, Len(s))

\* bind whose MERGE drains every sub-sequence
bind_MergeDrains(k, s, f, type) ==
    CASE type = "CONCAT"  -> new(k, <<concat(pymapB(f, s))>>, Len(s))
      [] type = "MERGE"   -> new(k, <<exhaust(pymapB(f, s))>>, Len(s))
      [] type = "EXHAUST" -> new(k, <<exhaust(pymapB(f, s))>>, Len(s))
      [] OTHER            -> Raised("ValueError", 0)

\* bind whose EXHAUST stops at the shortest sub-sequence
bind_ExhaustStops(k, s, f, type) ==
    CASE type = "CONCAT"  -> new(k, <<concat(pymapB(f, s))>>, Len(s))
      [] type = "MERGE"   -> new(k, <<merge(pymapB(f, s))>>, Len(s))
      [] type = "EXHAUST" -> new(k, <<merge(pymapB(f, s))>>, Len(s))
      [] OTHER            -> Raised("ValueError", 0)

\* bind whose CONCAT interleaves
bind_ConcatInterleaves(k, s, f, type) ==
    CASE type = "CONCAT"  -> new(k, <<exhaust(pymapB(f, s))>>, Len(s))
      [] type = "MERGE"   -> new(k, <<merge(pymapB(f, s))>>, Len(s))
      [] type = "EXHAUST" -> new(k, <<exhaust(pymapB(f, s))>>, Len(s))
      [] OTHER            -> Raised("ValueError", 0)

\* bind that treats an unknown type as CONCAT
bind_UnknownConcats(k, s, f, type) ==
    CASE type = "MERGE"   -> new(k, <<merge(pymapB(f, s))>>, Len(s))
      [] type = "EXHAUST" -> new(k, <<exhaust(pymapB(f, s))>>, Len(s))
      [] OTHER            -> new(k, <<concat(pymapB(f, s))>>, Len(s))

\* bind whose MERGE takes as many elements as a merge would, from the front
\* of the concatenation
bind_MergeCutsConcat(k, s, f, type) ==
    CASE type = "CONCAT"  -> new(k, <<concat(pymapB(f, s))>>, Len(s))
      [] type = "MERGE"   -> new(k, <<SubSeq(concat(pymapB(f, s)), 1,
                                             Len(merge(pymapB(f, s))))>>, Len(s))
      [] type = "EXHAUST" -> new(k, <<exhaust(pymapB(f, s))>>, Len(s))
      [] OTHER            -> Raised("ValueError", 0)

\* bind(self, f, type)
bind(k, s, f, type) ==
    CASE type = "CONCAT"  -> new(k, <<concat(pymapB(f, s))>>, Len(s))
      [] type = "MERGE"   -> new(k, <<merge(pymapB(f, s))>>, Len(s))
      [] type = "EXHAUST" -> new(k, <<exhaust(pymapB(f, s))>>, Len(s))
      [] OTHER            -> Raised("ValueError", 0)

\* the loop of foldl with the arguments of f exchanged
RECURSIVE foldlLoop_Swapped(_, _, _, _)
foldlLoop_Swapped(f, acc, it, n) ==
    IF it = <<>> THEN Scalar(acc, n)
    ELSE foldlLoop_Swapped(f, Apply2(f, Head(it), acc), Tail(it), n + 1)

\* the for loop of foldl: acc = f(acc, v) for each remaining v
RECURSIVE foldlLoop(_, _, _, _)
foldlLoop(f, acc, it, n) ==
    IF it = <<>> THEN Scalar(acc, n)
    ELSE foldlLoop(f, Apply2(f, acc, Head(it)), Tail(it), n + 1)

\* foldl that asks for a default before it looks at the receiver
foldl_DefaultFirst(s, f, start, default) ==
    IF start # None THEN foldlLoop(f, start[1], s, 0)
    ELSE IF default = None THEN Raised("ValueError", 0)
    ELSE IF s # <<>> THEN foldlLoop(f, Head(s), Tail(s), 0)
    ELSE foldlLoop(f, default[1], s, 0)

\* foldl that seeds with the first element whenever there is one
foldl_StartOnlyWhenEmpty(s, f, start, default) ==
    IF s # <<>> THEN foldlLoop(f, Head(s), Tail(s), 0)
    ELSE IF start # None THEN foldlLoop(f, start[1], s, 0)
    ELSE IF default = None THEN Raised("ValueError", 0)
    ELSE foldlLoop(f, default[1], s, 0)

\* foldl(self, f, start, default)
foldl(s, f, start, default) ==
    IF start # None THEN foldlLoop(f, start[1], s, 0)
    ELSE IF s # <<>> THEN foldlLoop(f, Head(s), Tail(s), 0)
    ELSE IF default = None THEN Raised("ValueError", 0)
    ELSE foldlLoop(f, default[1], s, 0)

\* reversed(self._ds)
RECURSIVE reversed(_)
reversed(s) == IF s = <<>> THEN <<>> ELSE Append(reversed(Tail(s)), Head(s))

\* the for loop of foldr: acc = f(v, acc) for each remaining v
RECURSIVE foldrLoop(_, _, _, _)
foldrLoop(f, acc, it, n) ==
    IF it = <<>> THEN Scalar(acc, n)
    ELSE foldrLoop(f, Apply2(f, Head(it), acc), Tail(it), n + 1)

\* foldr that iterates the receiver front to back
foldr_Forwards(s, f, start, default) ==
    LET it == s
    IN  IF start # None THEN foldrLoop(f, start[1], it, 0)
        ELSE IF s # <<>> THEN foldrLoop(f, Head(it), Tail(it), 0)
        ELSE IF default = None THEN Raised("ValueError", 0)
        ELSE foldrLoop(f, default[1], it, 0)

\* foldr(self, f, start, default)
foldr(s, f, start, default) ==
    LET it == reversed(s)
    IN  IF start # None THEN foldrLoop(f, start[1], it, 0)
        ELSE IF s # <<>> THEN foldrLoop(f, Head(it), Tail(it), 0)
        ELSE IF default = None THEN Raised("ValueError", 0)
        ELSE foldrLoop(f, default[1], it, 0)

\* accummulate that tests the truth of s instead of s is None
accummulate_Falsy(k, s, f, start) ==
    IF start = None \/ start = Some(0)
    THEN new(k, <<accumulate(s, f, None)>>, accumulateCalls(s, None))
    ELSE new(k, <<accumulate(s, f, start)>>, accumulateCalls(s, start))

\* accummulate that, without a start, passes the first element as the start
accummulate_SeedTwice(k, s, f, start) ==
    IF start = None
    THEN IF s = <<>> THEN new(k, <<accumulate(s, f, None)>>, 0)
         ELSE new(k, <<accumulate(s, f, Some(Head(s)))>>, Len(s))
    ELSE new(k, <<accumulate(s, f, start)>>, accumulateCalls(s, start))

\* accummulate(self, f, s)
accummulate(k, s, f, start) ==
    IF start = None
    THEN new(k, <<accumulate(s, f, None)>>, accumulateCalls(s, None))
    ELSE new(k, <<accumulate(s, f, start)>>, accumulateCalls(s, start))

\* tuple indexing self._ds[idx] with an int: negative indices count from
\* the end, anything outside [-len, len) is an IndexError
getitem(s, idx) ==
    LET i == IF idx < 0 THEN idx + Len(s) ELSE idx
    IN  IF i < 0 \/ i >= Len(s) THEN Raised("IndexError", 0) ELSE Scalar(s[i + 1], 0)

\* slice.indices: the clamping of one bound of a slice
adjust(bound, length, step) ==
    IF bound < 0
    THEN IF bound + length < 0 THEN (IF step < 0 THEN -1 ELSE 0) ELSE bound + length
    ELSE IF bound >= length THEN (IF step < 0 THEN length - 1 ELSE length) ELSE bound

\* tuple slicing self._ds[start:stop:step]; each of the three is None or <<int>>
tupleSlice(s, sl) ==
    LET length == Len(s)
        step   == IF sl.step = None THEN 1 ELSE sl.step[1]
        start  == IF sl.start = None
                  THEN (IF step < 0 THEN length - 1 ELSE 0)
                  ELSE adjust(sl.start[1], length, step)
        stop   == IF sl.stop = None
                  THEN (IF step < 0 THEN -1 ELSE length)
                  ELSE adjust(sl.stop[1], length, step)
        count  == IF step < 0
                  THEN (IF stop < start THEN (start - stop - 1) \div (-step) + 1 ELSE 0)
                  ELSE (IF start < stop THEN (stop - start - 1) \div step + 1 ELSE 0)
    IN  [i \in 1..count |-> s[start + (i - 1) * step + 1]]

\* __getitem__ that unpacks the slice into the constructor, IFTuple(*self._ds[idx])
getslice_Unpacked(k, s, sl) ==
    IF sl.step = Some(0) THEN Raised("ValueError", 0)
    ELSE IF tupleSlice(s, sl) = <<>> THEN new(k, <<>>, 0)
    ELSE IF Len(tupleSlice(s, sl)) = 1 THEN Raised("TypeError", 0)
    ELSE Raised("ValueError", 0)

\* __getitem__(self, idx) with a slice
getslice(k, s, sl) ==
    IF sl.step = Some(0) THEN Raised("ValueError", 0)
    ELSE new(k, <<tupleSlice(s, sl)>>, 0)

\* copy(self)
copy(k, s) == new(k, <<s>>, 0)

\* __add__ that puts the right operand first
add_OtherFirst(k, s, other) ==
    IF other.kind # k THEN Raised("ValueError", 0)
    ELSE new(k, <<concat(<<other.ds, s>>)>>, 0)

\* __add__(self, other): other is an instance of some class
add(k, s, other) ==
    IF other.kind # k THEN Raised("ValueError", 0)
    ELSE new(k, <<concat(<<s, other.ds>>)>>, 0)

\* tuple.__mul__
RECURSIVE tupleMul(_, _)
tupleMul(s, n) == IF n <= 0 THEN <<>> ELSE s \o tupleMul(s, n - 1)

\* __mul__(self, num)
mul(k, s, num) == new(k, <<tupleMul(s, IF num > 0 THEN num ELSE 0)>>, 0)

\* __rmul__ that repeats |num| times
rmul_Magnitude(k, s, num) == new(k, <<tupleMul(s, IF num > 0 THEN num ELSE 0 - num)>>, 0)

\* __rmul__(self, num)
rmul(k, s, num) == new(k, <<tupleMul(s, IF num > 0 THEN num ELSE 0)>>, 0)

\* What an ITuple holds is what its constructor was handed: a value of the
\* receiver's element type, or one object (a tuple, a map object, a
\* generator) that would yield seq if it were iterated.
IntCell(n) == [tag |-> "int", v |-> n, seq |-> <<>>]
IterCell(s) == [tag |-> "iterable", v |-> 0, seq |-> s]

\* the arguments of a call unpacked from a sequence, ITuple(*s)
Cells(s) == [i \in 1..Len(s) |-> IntCell(s[i])]

\* ITuple.__new__(cls, *ds): the positional arguments are the elements
ituple_new(elems) == Returned(Instance("ITuple", elems), 0)

\* ITuple.__mul__(self, num): the product of the underlying tuple, unpacked
\* into the constructor
ituple_mul(s, num) == ituple_new(Cells(tupleMul(s, num)))

\* ITuple.__rmul__(self, num)
ituple_rmul(s, num) == ituple_new(Cells(tupleMul(s, num)))

\* ITuple.__getitem__(self, idx) with a slice: the slice of the underlying
\* tuple is handed to the constructor as its one argument
ituple_getslice(s, sl) ==
    IF sl.step = Some(0) THEN Raised("ValueError", 0)
    ELSE ituple_new(<<IterCell(tupleSlice(s, sl))>>)

\* ITuple.copy(self): ITuple(self)
ituple_copy(s) == ituple_new(<<IterCell(s)>>)

\* ITuple.__add__(self, other): ITuple(concat(self, other))
ituple_add(s, other) ==
    IF other.kind # "ITuple" THEN Raised("ValueError", 0)
    ELSE ituple_new(<<IterCell(concat(<<s, other.ds>>))>>)

\* ITuple.accummulate(self, f, s): the generator is handed over unrun, so f
\* is not called
ituple_accummulate(s, f, start) ==
    IF start = None
    THEN ituple_new(<<IterCell(accumulate(s, f, None))>>)
    ELSE ituple_new(<<IterCell(accumulate(s, f, start))>>)

\* ITuple.map(self, f): ITuple(map(f, self)), the map object is not iterated
ituple_map(s, f) == ituple_new(<<IterCell(pymap(f, s))>>)

\* ITuple.bind(self, f, type): *map(f, self) calls f on every element, the
\* concat / merge / exhaust of the results is handed over as one argument
ituple_bind(s, f, type) ==
    CASE type = "CONCAT"  ->
             Returned(ituple_new(<<IterCell(concat(pymapB(f, s)))>>).ret, Len(s))
      [] type = "MERGE"   ->
             Returned(ituple_new(<<IterCell(merge(pymapB(f, s)))>>).ret, Len(s))
      [] type = "EXHAUST" ->
             Returned(ituple_new(<<IterCell(exhaust(pymapB(f, s)))>>).ret, Len(s))
      [] OTHER            -> Raised("ValueError", 0)

\* ituple(*ds): ITuple[D_co](ds), the tuple of arguments is the one argument
ituple(vs) == ituple_new(<<IterCell(vs)>>)

\* hash(self): the class body defines __eq__ and no __hash__, so Python sets
\* the class's __hash__ to None and hash() raises TypeError (unhashable type)
hash(k, s) == Raised("TypeError", 0)

\* hash of an ITuple: ITuple also defines __eq__ without __hash__, which
\* hides tuple.__hash__
ituple_hash(s) == Raised("TypeError", 0)

\* __eq__(self, other): other.me says that other is the receiver itself;
\* the answer is the Python bool as 1 or 0
eq(k, s, other) ==
    IF other.me THEN Scalar(1, 0)
    ELSE IF other.kind # k THEN Scalar(0, 0)
    ELSE Scalar(IF s = other.ds THEN 1 ELSE 0, 0)

\* __iter__(self) run to its end: the values yielded, in order
iter(s) == Returned([kind |-> "iterator", ds |-> s], 0)

\* __len__(self)
len(s) == Scalar(Len(s), 0)

\* __bool__(self)
bool(s) == Scalar(IF s # <<>> THEN 1 ELSE 0, 0)

\* ------------------------------------------------- Box
\* What a Box slot or an argument can be: the empty-marker Sentinel('Box'),
\* Python's None, an integer; results also carry bools.
Sentinel == [tag |-> "Sentinel", v |-> 0]
NoneItem == [tag |-> "None", v |-> 0]
IntItem(n) == [tag |-> "int", v |-> n]
BoolItem(b) == [tag |-> "bool", v |-> IF b THEN 1 ELSE 0]

Items == {IntItem(n) : n \in 0..MaxItem} \cup {NoneItem}
ItemArgs == Items \cup {Sentinel}

\* a Box given by its _item
BoxOf(it) == [kind |-> "Box", ds |-> <<it>>]

\* unary functions handed to Box.map
BoxMapFns == {"id", "succ", "none"}
ApplyItem(f, x) ==
    CASE f = "id"   -> x
      [] f = "succ" -> IF x.tag = "int" THEN IntItem(x.v + 1) ELSE IntItem(0)
      [] f = "none" -> NoneItem

\* functions handed to Box.bind: each returns a Box
BoxBindFns == {"wrap", "empty", "succ"}
ApplyBox(f, x) ==
    CASE f = "wrap"  -> BoxOf(x)
      [] f = "empty" -> BoxOf(Sentinel)
      [] f = "succ"  -> BoxOf(ApplyItem("succ", x))

\* a Box method leaves the slot as item and answers with res
Outcome(it, r) == [item |-> it, res |-> r]

\* Box.__init__(self, value=Sentinel('Box'))
box_init(value) == value

\* Box.__bool__ that takes None for the empty slot too
box_bool_NoneIsEmpty(it) == it # Sentinel /\ it # NoneItem

\* Box.__bool__(self)
box_bool(it) == it # Sentinel

\* Box.__len__ that takes None for the empty slot
box_len_NoneIsEmpty(it) == IF it # NoneItem THEN 1 ELSE 0

\* Box.__len__(self)
box_len(it) == IF box_bool(it) THEN 1 ELSE 0

\* Box.__iter__(self) run to its end in one go: the values yielded
box_iter(it) == IF box_bool(it) THEN <<it>> ELSE <<>>

\* Box.__iter__ is a generator function: iter(box) returns a generator whose
\* body has not started ("fresh"); the first next() runs `if self:` on what
\* the Box holds then and yields it ("yielded") or ends ("done"); any later
\* next() ends the generator.
GenStates == {"none", "fresh", "yielded", "done"}
box_next(it, g) ==
    IF g = "fresh" /\ box_bool(it)
    THEN [gen |-> "yielded", res |-> Scalar(it, 0)]
    ELSE [gen |-> "done", res |-> Raised("StopIteration", 0)]

\* Box.__eq__(self, other): other is a Box or something else
box_eq(it, other) ==
    IF other.kind # "Box" THEN FALSE
    ELSE IF it = other.ds[1] THEN TRUE
    ELSE FALSE

\* Box.get that prefers the alternate value
box_get_AltFirst(it, alt) ==
    IF alt # Sentinel THEN Outcome(it, Scalar(alt, 0))
    ELSE IF it # Sentinel THEN Outcome(it, Scalar(it, 0))
    ELSE Outcome(it, Raised("ValueError", 0))

\* Box.get(self, alt=Sentinel('Box'))
box_get(it, alt) ==
    IF it # Sentinel THEN Outcome(it, Scalar(it, 0))
    ELSE IF alt = Sentinel THEN Outcome(it, Raised("ValueError", 0))
    ELSE Outcome(it, Scalar(alt, 0))

\* Box.put that overwrites what the Box holds
box_put_Overwrites(it, x) == Outcome(x, Returned(NoInstance, 0))

\* Box.put that stores the item before it fails
box_put_StoresThenRaises(it, x) ==
    IF it = Sentinel THEN Outcome(x, Returned(NoInstance, 0))
    ELSE Outcome(x, Raised("ValueError", 0))

\* Box.put(self, item)
box_put(it, x) ==
    IF it = Sentinel THEN Outcome(x, Returned(NoInstance, 0))
    ELSE Outcome(it, Raised("ValueError", 0))

\* Box.pop that leaves the value in the Box
box_pop_Keeps(it) ==
    IF it = Sentinel THEN Outcome(it, Raised("ValueError", 0))
    ELSE Outcome(it, Scalar(it, 0))

\* Box.pop(self)
box_pop(it) ==
    IF it = Sentinel THEN Outcome(it, Raised("ValueError", 0))
    ELSE Outcome(Sentinel, Scalar(it, 0))

\* Box.map that puts f's result into the receiver, as the class docstring words it
box_map_InPlace(it, f) ==
    IF it = Sentinel THEN Outcome(it, Returned(BoxOf(box_init(Sentinel)), 0))
    ELSE Outcome(ApplyItem(f, it), Returned(BoxOf(box_init(ApplyItem(f, it))), 1))

\* Box.map(self, f)
box_map(it, f) ==
    IF it = Sentinel THEN Outcome(it, Returned(BoxOf(box_init(Sentinel)), 0))
    ELSE Outcome(it, Returned(BoxOf(box_init(ApplyItem(f, it))), 1))

\* Box.bind(self, f)
box_bind(it, f) ==
    IF it = Sentinel THEN Outcome(it, Returned(BoxOf(box_init(Sentinel)), 0))
    ELSE Outcome(it, Returned(ApplyBox(f, it), 1))

\* ------------------------------------------------- state
VARIABLES
    kind,     \* class of the receiver
    ds,       \* the receiver's _ds
    call,     \* the last method call and its arguments
    res,      \* what that call returned or raised
    item,     \* the _item of the Box
    gen       \* where the generator made by iter(box) stands

vars == <<kind, ds, call, res, item, gen>>

NoSlice == [start |-> None, stop |-> None, step |-> None]
NoOther == [kind |-> "none", ds |-> <<>>, me |-> FALSE]

NoCall == [op |-> "init", fn |-> "-", type |-> "-", start |-> None, default |-> None,
           idx |-> 0, sl |-> NoSlice, other |-> NoOther, num |-> 0, args |-> <<>>,
           x |-> Sentinel, pre |-> Sentinel]

\* arguments of the calls
Indices == (0 - MaxLen - 1)..(MaxLen + 1)
SliceBounds == {None} \cup {Some(i) : i \in (0 - MaxIdx)..MaxIdx}
SliceSteps == {None} \cup {Some(i) : i \in (0 - MaxStep)..MaxStep}
Slices == [start : SliceBounds, stop : SliceBounds, step : SliceSteps]
Others == [kind : Kinds \cup {"tuple"}, ds : SeqsUpTo(Elem, MaxOther), me : {FALSE}]
Nums == (0 - 1)..MaxNum
\* the positional arguments of a constructor call: none, one iterable, or
\* several short ones
ExtraIters == {<<>>, <<0>>}
ArgLists == {<<>>} \cup {<<a>> : a \in Tuples}
            \cup {dss \in SeqsUpTo(ExtraIters, MaxArgs) : Len(dss) >= 2}

Init ==
    /\ kind \in Kinds
    /\ ds \in Tuples
    /\ call = NoCall
    /\ res = Returned(NoInstance, 0)
    /\ item = box_init(Sentinel)
    /\ gen = "none"

\* map that stores its result in the receiver
Map_InPlace ==
    \E f \in MapFns :
        /\ call = NoCall
        /\ call' = [NoCall EXCEPT !.op = "map", !.fn = f]
        /\ res' = map(kind, ds, f)
        /\ ds' = res'.ret.ds
        /\ UNCHANGED <<kind, item, gen>>

Map ==
    \E f \in MapFns :
        /\ call = NoCall
        /\ call' = [NoCall EXCEPT !.op = "map", !.fn = f]
        /\ res' = map(kind, ds, f)
        /\ UNCHANGED <<kind, ds, item, gen>>

\* type "absent" is a call without the second argument: the default applies
Bind ==
    \E f \in BindFns, type \in FM \cup {"absent", "OTHER"} :
        /\ call = NoCall
        /\ call' = [NoCall EXCEPT !.op = "bind", !.fn = f, !.type = type]
        /\ res' = bind(kind, ds, f, IF type = "absent" THEN "CONCAT" ELSE type)
        /\ UNCHANGED <<kind, ds, item, gen>>

Foldl ==
    \E f \in FoldFns, start \in Optionals, default \in Optionals :
        /\ call = NoCall
        /\ call' = [NoCall EXCEPT !.op = "foldl", !.fn = f, !.start = start,
                                  !.default = default]
        /\ res' = foldl(ds, f, start, default)
        /\ UNCHANGED <<kind, ds, item, gen>>

Foldr ==
    \E f \in FoldFns, start \in Optionals, default \in Optionals :
        /\ call = NoCall
        /\ call' = [NoCall EXCEPT !.op = "foldr", !.fn = f, !.start = start,
                                  !.default = default]
        /\ res' = foldr(ds, f, start, default)
        /\ UNCHANGED <<kind, ds, item, gen>>

Accummulate ==
    \E f \in FoldFns, start \in Optionals :
        /\ call = NoCall
        /\ call' = [NoCall EXCEPT !.op = "accummulate", !.fn = f, !.start = start]
        /\ res' = accummulate(kind, ds, f, start)
        /\ UNCHANGED <<kind, ds, item, gen>>

GetItem ==
    \E idx \in Indices :
        /\ call = NoCall
        /\ call' = [NoCall EXCEPT !.op = "getitem", !.idx = idx]
        /\ res' = getitem(ds, idx)
        /\ UNCHANGED <<kind, ds, item, gen>>

GetSlice ==
    \E sl \in Slices :
        /\ call = NoCall
        /\ call' = [NoCall EXCEPT !.op = "getslice", !.sl = sl]
        /\ res' = getslice(kind, ds, sl)
        /\ UNCHANGED <<kind, ds, item, gen>>

Copy ==
    /\ call = NoCall
    /\ call' = [NoCall EXCEPT !.op = "copy"]
    /\ res' = copy(kind, ds)
    /\ UNCHANGED <<kind, ds, item, gen>>

Add ==
    \E other \in Others :
        /\ call = NoCall
        /\ call' = [NoCall EXCEPT !.op = "add", !.other = other]
        /\ res' = add(kind, ds, other)
        /\ UNCHANGED <<kind, ds, item, gen>>

Mul ==
    \E num \in Nums :
        /\ call = NoCall
        /\ call' = [NoCall EXCEPT !.op = "mul", !.num = num]
        /\ res' = mul(kind, ds, num)
        /\ UNCHANGED <<kind, ds, item, gen>>

RMul ==
    \E num \in Nums :
        /\ call = NoCall
        /\ call' = [NoCall EXCEPT !.op = "rmul", !.num = num]
        /\ res' = rmul(kind, ds, num)
        /\ UNCHANGED <<kind, ds, item, gen>>

\* ITuple(*ds) * num and num * ITuple(*ds): the products of the ITuple that
\* holds the receiver's elements
ITupleMul ==
    \E num \in Nums :
        /\ call = NoCall
        /\ call' = [NoCall EXCEPT !.op = "ituple.mul", !.num = num]
        /\ res' = ituple_mul(ds, num)
        /\ UNCHANGED <<kind, ds, item, gen>>

ITupleRMul ==
    \E num \in Nums :
        /\ call = NoCall
        /\ call' = [NoCall EXCEPT !.op = "ituple.rmul", !.num = num]
        /\ res' = ituple_rmul(ds, num)
        /\ UNCHANGED <<kind, ds, item, gen>>

\* s == other, other being the receiver itself or another object
Eq ==
    \E other \in Others \cup {[kind |-> kind, ds |-> ds, me |-> TRUE]} :
        /\ call = NoCall
        /\ call' = [NoCall EXCEPT !.op = "eq", !.other = other]
        /\ res' = eq(kind, ds, other)
        /\ UNCHANGED <<kind, ds, item, gen>>

Iter ==
    /\ call = NoCall
    /\ call' = [NoCall EXCEPT !.op = "iter"]
    /\ res' = iter(ds)
    /\ UNCHANGED <<kind, ds, item, gen>>

LenBool ==
    \/ /\ call = NoCall
       /\ call' = [NoCall EXCEPT !.op = "len"]
       /\ res' = len(ds)
       /\ UNCHANGED <<kind, ds, item, gen>>
    \/ /\ call = NoCall
       /\ call' = [NoCall EXCEPT !.op = "bool"]
       /\ res' = bool(ds)
       /\ UNCHANGED <<kind, ds, item, gen>>

\* hash(s), as a set or a dict takes it of a member or key
Hash ==
    /\ call = NoCall
    /\ call' = [NoCall EXCEPT !.op = "hash"]
    /\ res' = hash(kind, ds)
    /\ UNCHANGED <<kind, ds, item, gen>>

\* hash(ITuple(*ds))
ITupleHash ==
    /\ call = NoCall
    /\ call' = [NoCall EXCEPT !.op = "ituple.hash"]
    /\ res' = ituple_hash(ds)
    /\ UNCHANGED <<kind, ds, item, gen>>

\* a constructor call of the receiver's class, IFTuple(*dss) or Luple(*dss)
Construct ==
    \E dss \in ArgLists :
        /\ call = NoCall
        /\ call' = [NoCall EXCEPT !.op = "new", !.args = dss]
        /\ res' = new(kind, dss, 0)
        /\ UNCHANGED <<kind, ds, item, gen>>

\* The calls below are made on the ITuple that holds the receiver's elements.
ITupleOthers == [kind : {"ITuple", "tuple"}, ds : SeqsUpTo(Elem, MaxOther), me : {FALSE}]

ITupleGetSlice ==
    \E sl \in Slices :
        /\ call = NoCall
        /\ call' = [NoCall EXCEPT !.op = "ituple.getslice", !.sl = sl]
        /\ res' = ituple_getslice(ds, sl)
        /\ UNCHANGED <<kind, ds, item, gen>>

ITupleCopy ==
    /\ call = NoCall
    /\ call' = [NoCall EXCEPT !.op = "ituple.copy"]
    /\ res' = ituple_copy(ds)
    /\ UNCHANGED <<kind, ds, item, gen>>

ITupleAdd ==
    \E other \in ITupleOthers :
        /\ call = NoCall
        /\ call' = [NoCall EXCEPT !.op = "ituple.add", !.other = other]
        /\ res' = ituple_add(ds, other)
        /\ UNCHANGED <<kind, ds, item, gen>>

ITupleAccummulate ==
    \E f \in FoldFns, start \in Optionals :
        /\ call = NoCall
        /\ call' = [NoCall EXCEPT !.op = "ituple.accummulate", !.fn = f, !.start = start]
        /\ res' = ituple_accummulate(ds, f, start)
        /\ UNCHANGED <<kind, ds, item, gen>>

ITupleMap ==
    \E f \in MapFns :
        /\ call = NoCall
        /\ call' = [NoCall EXCEPT !.op = "ituple.map", !.fn = f]
        /\ res' = ituple_map(ds, f)
        /\ UNCHANGED <<kind, ds, item, gen>>

ITupleBind ==
    \E f \in BindFns, type \in FM \cup {"absent", "OTHER"} :
        /\ call = NoCall
        /\ call' = [NoCall EXCEPT !.op = "ituple.bind", !.fn = f, !.type = type]
        /\ res' = ituple_bind(ds, f, IF type = "absent" THEN "CONCAT" ELSE type)
        /\ UNCHANGED <<kind, ds, item, gen>>

\* ituple(v1, ..., vn); the values are kept as the one entry of args
ITupleFactory ==
    \E vs \in Tuples :
        /\ call = NoCall
        /\ call' = [NoCall EXCEPT !.op = "ituple", !.args = <<vs>>]
        /\ res' = ituple(vs)
        /\ UNCHANGED <<kind, ds, item, gen>>

\* the caller is done with the result of the call and goes on to the next
Release ==
    /\ call # NoCall
    /\ call' = NoCall
    /\ res' = Returned(NoInstance, 0)
    /\ UNCHANGED <<kind, ds, item, gen>>

Next ==
    \/ Map
    \/ Bind
    \/ Foldl
    \/ Foldr
    \/ Accummulate
    \/ GetItem
    \/ GetSlice
    \/ Copy
    \/ Add
    \/ Mul
    \/ RMul
    \/ ITupleMul
    \/ ITupleRMul
    \/ Eq
    \/ Iter
    \/ LenBool
    \/ Hash
    \/ ITupleHash
    \/ ITupleGetSlice
    \/ ITupleCopy
    \/ ITupleAdd
    \/ ITupleAccummulate
    \/ ITupleMap
    \/ ITupleBind
    \/ ITupleFactory
    \/ Construct
    \/ Release

Spec == Init /\ [][Next]_vars

\* ------------------------------------------------- the Box on its own
\* Box() or Box(value), before any call; the tuple is left aside
BoxInit ==
    /\ kind = "IFTuple"
    /\ ds = <<>>
    /\ call = NoCall
    /\ res = Returned(NoInstance, 0)
    /\ \E value \in ItemArgs : item = box_init(value)
    /\ gen = "none"

\* Each Box call records in pre what the Box held when it was made.
BoxPut ==
    \E x \in ItemArgs :
        /\ call = NoCall
        /\ call' = [NoCall EXCEPT !.op = "box.put", !.x = x, !.pre = item]
        /\ res' = box_put(item, x).res
        /\ item' = box_put(item, x).item
        /\ UNCHANGED <<kind, ds, gen>>

BoxPop ==
    /\ call = NoCall
    /\ call' = [NoCall EXCEPT !.op = "box.pop", !.pre = item]
    /\ res' = box_pop(item).res
    /\ item' = box_pop(item).item
    /\ UNCHANGED <<kind, ds, gen>>

\* alt = Sentinel is also the call without an argument
BoxGet ==
    \E alt \in ItemArgs :
        /\ call = NoCall
        /\ call' = [NoCall EXCEPT !.op = "box.get", !.x = alt, !.pre = item]
        /\ res' = box_get(item, alt).res
        /\ item' = box_get(item, alt).item
        /\ UNCHANGED <<kind, ds, gen>>

BoxMap ==
    \E f \in BoxMapFns :
        /\ call = NoCall
        /\ call' = [NoCall EXCEPT !.op = "box.map", !.fn = f, !.pre = item]
        /\ res' = box_map(item, f).res
        /\ item' = box_map(item, f).item
        /\ UNCHANGED <<kind, ds, gen>>

BoxBind ==
    \E f \in BoxBindFns :
        /\ call = NoCall
        /\ call' = [NoCall EXCEPT !.op = "box.bind", !.fn = f, !.pre = item]
        /\ res' = box_bind(item, f).res
        /\ item' = box_bind(item, f).item
        /\ UNCHANGED <<kind, ds, gen>>

BoxLen ==
    /\ call = NoCall
    /\ call' = [NoCall EXCEPT !.op = "box.len", !.pre = item]
    /\ res' = Scalar(IntItem(box_len(item)), 0)
    /\ UNCHANGED <<kind, ds, item, gen>>

BoxBool ==
    /\ call = NoCall
    /\ call' = [NoCall EXCEPT !.op = "box.bool", !.pre = item]
    /\ res' = Scalar(BoolItem(box_bool(item)), 0)
    /\ UNCHANGED <<kind, ds, item, gen>>

\* iter(box): the generator is made and nothing of the Box is read yet
BoxIter ==
    /\ call = NoCall
    /\ call' = [NoCall EXCEPT !.op = "box.iter", !.pre = item]
    /\ res' = Returned([kind |-> "generator", ds |-> <<>>], 0)
    /\ gen' = "fresh"
    /\ UNCHANGED <<kind, ds, item>>

\* next(it) on the generator made by the last iter(box), whatever calls were
\* made on the Box since
BoxIterNext ==
    /\ call = NoCall
    /\ gen # "none"
    /\ call' = [NoCall EXCEPT !.op = "box.next", !.pre = item]
    /\ res' = box_next(item, gen).res
    /\ gen' = box_next(item, gen).gen
    /\ UNCHANGED <<kind, ds, item>>

\* box == Box(x), and box == x for something that is not a Box
BoxEq ==
    \E x \in ItemArgs, k \in {"Box", "other"} :
        /\ call = NoCall
        /\ call' = [NoCall EXCEPT !.op = "box.eq", !.fn = k, !.x = x, !.pre = item]
        /\ res' = Scalar(BoolItem(box_eq(item, [kind |-> k, ds |-> <<x>>])), 0)
        /\ UNCHANGED <<kind, ds, item, gen>>

\* Box(value) or Box(): the name is bound to a Box made anew, and a
\* generator of the Box it was bound to is let go
BoxConstruct ==
    \E value \in ItemArgs :
        /\ call = NoCall
        /\ call' = [NoCall EXCEPT !.op = "box.init", !.x = value, !.pre = item]
        /\ res' = Returned(BoxOf(box_init(value)), 0)
        /\ item' = box_init(value)
        /\ gen' = "none"
        /\ UNCHANGED <<kind, ds>>

BoxNext ==
    \/ BoxConstruct
    \/ BoxPut
    \/ BoxPop
    \/ BoxGet
    \/ BoxMap
    \/ BoxBind
    \/ BoxLen
    \/ BoxBool
    \/ BoxIter
    \/ BoxIterNext
    \/ BoxEq
    \/ Release

BoxSpec == BoxInit /\ [][BoxNext]_vars

\* ------------------------------------------------- properties of bind
\* the receiver's length and the sub-sequence f makes of its i-th element
N == Len(ds)
Sub(i) == ApplyB(call.fn, ds[i])
SubLens == {Len(Sub(i)) : i \in 1..N}
MinSubLen == IF N = 0 THEN 0 ELSE CHOOSE m \in SubLens : \A l \in SubLens : m <= l
MaxSubLen == IF N = 0 THEN 0 ELSE CHOOSE m \in SubLens : \A l \in SubLens : m >= l

RECURSIVE SumSubLens(_)
SumSubLens(i) == IF i = 0 THEN 0 ELSE SumSubLens(i - 1) + Len(Sub(i))

BindOut == res.ret.ds
BoundWith(types) == call.op = "bind" /\ call.type \in types

\* C1: bind with MERGE returns the round-robin interleave of the
\* sub-sequences cut after min_i len(sub_i) full rounds: N*m elements,
\* element j being sub_(j mod N)[j div N]; it is empty when the receiver
\* is empty or some sub-sequence is empty.
C1_MergeTruncatesToShortest ==
    BoundWith({"MERGE"}) =>
        /\ res.err = "none"
        /\ res.ret.kind = kind
        /\ Len(BindOut) = N * MinSubLen
        /\ \A j \in 1..(N * MinSubLen) :
               BindOut[j] = Sub(((j - 1) % N) + 1)[((j - 1) \div N) + 1]
        /\ (N = 0 \/ \E i \in 1..N : Sub(i) = <<>>) => BindOut = <<>>

\* a merge of at least two sub-sequences that dropped elements of a longer one
C1_Witness ==
    /\ BoundWith({"MERGE"})
    /\ N >= 2
    /\ MinSubLen >= 1
    /\ MaxSubLen > MinSubLen
    /\ Len(BindOut) = N * MinSubLen

\* the k-th round of a round-robin over all sub-sequences: the k-th element
\* of every sub-sequence that has one, in receiver order
LiveIn(k) == SelectSeq([i \in 1..N |-> i], LAMBDA i : Len(Sub(i)) >= k)
Round(k) == [j \in 1..Len(LiveIn(k)) |-> Sub(LiveIn(k)[j])[k]]

RECURSIVE Rounds(_)
Rounds(k) == IF k = 0 THEN <<>> ELSE Rounds(k - 1) \o Round(k)

\* C2: bind with EXHAUST returns round 0, round 1, ... where round k lists
\* sub_i[k] for i = 0..N-1 over the sub-sequences longer than k; its length
\* is the sum of the lengths of the sub-sequences.
C2_ExhaustDrainsAll ==
    BoundWith({"EXHAUST"}) =>
        /\ res.err = "none"
        /\ res.ret.kind = kind
        /\ BindOut = Rounds(MaxSubLen)
        /\ Len(BindOut) = SumSubLens(N)

\* an exhaust where a sub-sequence ran out before a later, longer one
C2_Witness ==
    /\ BoundWith({"EXHAUST"})
    /\ \E i, j \in 1..N : i < j /\ Len(Sub(i)) >= 1 /\ Len(Sub(i)) < Len(Sub(j))
    /\ \E i, j \in 1..N : i < j /\ Len(Sub(i)) > Len(Sub(j))
    /\ Len(BindOut) = SumSubLens(N)

\* C3: bind with CONCAT, or without a policy, returns the flattening in
\* source order: sub_i occupies the positions after those of sub_0..sub_(i-1);
\* an empty receiver gives an empty result.
C3_ConcatFlattensInOrder ==
    BoundWith({"CONCAT", "absent"}) =>
        /\ res.err = "none"
        /\ res.ret.kind = kind
        /\ Len(BindOut) = SumSubLens(N)
        /\ \A i \in 1..N : \A k \in 1..Len(Sub(i)) :
               BindOut[SumSubLens(i - 1) + k] = Sub(i)[k]
        /\ N = 0 => BindOut = <<>>

\* a bind without a policy over sub-sequences of different lengths
C3_Witness ==
    /\ BoundWith({"absent"})
    /\ N >= 2
    /\ MinSubLen >= 1
    /\ MaxSubLen > MinSubLen
    /\ Len(BindOut) = SumSubLens(N)

\* ------------------------------------------------- properties of the folds
\* f(...f(f(a, s[1]), s[2])..., s[n]): the left fold of the first n elements
RECURSIVE LeftFold(_, _, _, _)
LeftFold(f, a, s, n) ==
    IF n = 0 THEN a ELSE Apply2(f, LeftFold(f, a, s, n - 1), s[n])

\* f(s[1], f(s[2], ... f(s[n], a))): the right fold
RECURSIVE RightFold(_, _, _)
RightFold(f, s, a) ==
    IF s = <<>> THEN a ELSE Apply2(f, Head(s), RightFold(f, Tail(s), a))

Front(s) == SubSeq(s, 1, Len(s) - 1)

\* C4: foldl with a start returns f(...f(f(start, e0), e1)..., e(n-1)),
\* start itself on an empty receiver, whatever default is; without a start
\* on a non-empty receiver it returns f(...f(e0, e1)..., e(n-1)) after n-1
\* applications of f, and default is ignored.
C4_FoldlResolution ==
    call.op = "foldl" =>
        /\ call.start # None =>
               /\ res.err = "none"
               /\ res.val = Some(LeftFold(call.fn, call.start[1], ds, Len(ds)))
               /\ res.calls = Len(ds)
               /\ ds = <<>> => res.val = call.start
        /\ (call.start = None /\ ds # <<>>) =>
               /\ res.err = "none"
               /\ res.val = Some(LeftFold(call.fn, ds[1], Tail(ds), Len(ds) - 1))
               /\ res.calls = Len(ds) - 1

\* a foldl of an order-sensitive function over several elements, seeded by
\* the first element although a default was passed
C4_Witness ==
    /\ call.op = "foldl"
    /\ call.fn = "sub"
    /\ call.start = None
    /\ call.default # None
    /\ Len(ds) >= 3
    /\ ds[1] # ds[2]
    /\ res.calls = Len(ds) - 1

\* C5: foldr with a start returns f(e0, f(e1, ... f(e(n-1), start))), start
\* itself on an empty receiver; without a start on a non-empty receiver the
\* last element seeds the fold, f(e0, ... f(e(n-2), e(n-1))), and default is
\* ignored.
C5_FoldrResolution ==
    call.op = "foldr" =>
        /\ call.start # None =>
               /\ res.err = "none"
               /\ res.val = Some(RightFold(call.fn, ds, call.start[1]))
               /\ res.calls = Len(ds)
               /\ ds = <<>> => res.val = call.start
        /\ (call.start = None /\ ds # <<>>) =>
               /\ res.err = "none"
               /\ res.val = Some(RightFold(call.fn, Front(ds), ds[Len(ds)]))
               /\ res.calls = Len(ds) - 1

\* a foldr of an order-sensitive function over several elements, seeded by
\* the last element although a default was passed
C5_Witness ==
    /\ call.op = "foldr"
    /\ call.fn = "sub"
    /\ call.start = None
    /\ call.default # None
    /\ Len(ds) >= 3
    /\ ds[1] # ds[Len(ds)]
    /\ res.calls = Len(ds) - 1

\* C6: foldl and foldr on an empty receiver without a start return default,
\* never calling f, when default is passed, and raise ValueError when it is
\* not; they raise in no other case.
C6_FoldEmptyWithoutStart ==
    call.op \in {"foldl", "foldr"} =>
        /\ (ds = <<>> /\ call.start = None /\ call.default # None) =>
               res.err = "none" /\ res.val = call.default /\ res.calls = 0
        /\ (ds = <<>> /\ call.start = None /\ call.default = None) =>
               res.err = "ValueError" /\ res.val = None
        /\ res.err # "none" =>
               ds = <<>> /\ call.start = None /\ call.default = None

\* a fold of an empty receiver that raised
C6_Witness ==
    /\ call.op \in {"foldl", "foldr"}
    /\ ds = <<>>
    /\ call.start = None
    /\ call.default = None
    /\ res.err = "ValueError"

\* ------------------------------------------------- properties of accummulate
AccOut == res.ret.ds

\* C7: accummulate with a start returns len(s)+1 elements: start, then
\* out[k] = f(out[k-1], s[k-1]); on an empty receiver it returns [start].
C7_AccummulateWithStart ==
    (call.op = "accummulate" /\ call.start # None) =>
        /\ res.err = "none"
        /\ res.ret.kind = kind
        /\ Len(AccOut) = Len(ds) + 1
        /\ AccOut[1] = call.start[1]
        /\ \A k \in 2..(Len(ds) + 1) : AccOut[k] = Apply2(call.fn, AccOut[k - 1], ds[k - 1])
        /\ ds = <<>> => AccOut = <<call.start[1]>>

\* an accummulate from the start value 0 over several elements
C7_Witness ==
    /\ call.op = "accummulate"
    /\ call.start = Some(0)
    /\ call.fn = "sub"
    /\ Len(ds) >= 2
    /\ Len(AccOut) = Len(ds) + 1

\* C8: accummulate without a start returns as many elements as the receiver
\* has: s[0], then out[k] = f(out[k-1], s[k]); an empty receiver gives an
\* empty result.
C8_AccummulateWithoutStart ==
    (call.op = "accummulate" /\ call.start = None) =>
        /\ res.err = "none"
        /\ res.ret.kind = kind
        /\ Len(AccOut) = Len(ds)
        /\ ds # <<>> => AccOut[1] = ds[1]
        /\ \A k \in 2..Len(ds) : AccOut[k] = Apply2(call.fn, AccOut[k - 1], ds[k])
        /\ ds = <<>> => AccOut = <<>>

\* an accummulate without a start over several elements
C8_Witness ==
    /\ call.op = "accummulate"
    /\ call.start = None
    /\ call.fn = "lin"
    /\ Len(ds) >= 2
    /\ Len(AccOut) = Len(ds)
    /\ AccOut # ds

\* ------------------------------------------------- frame
\* C9: no public operation changes the receiver: its elements, and with
\* them its length, stay what they were at construction.
C9_ReceiverNeverChanges ==
    [][ds' = ds /\ Len(ds') = Len(ds) /\ kind' = kind]_vars

\* an operation has returned a sequence that differs from its receiver
C9_Witness ==
    /\ call.op \in {"map", "bind", "accummulate", "getslice", "add", "mul", "rmul"}
    /\ res.err = "none"
    /\ ds # <<>>
    /\ res.ret.ds # ds

\* C10: map(f) returns a sequence of the receiver's length whose i-th
\* element is f(s[i]); an empty receiver maps to an empty sequence.
C10_MapElementwise ==
    call.op = "map" =>
        /\ res.err = "none"
        /\ res.ret.kind = kind
        /\ Len(res.ret.ds) = Len(ds)
        /\ \A i \in 1..Len(ds) : res.ret.ds[i] = Apply1(call.fn, ds[i])
        /\ ds = <<>> => res.ret.ds = <<>>

\* a map over several distinct elements with distinct images
C10_Witness ==
    /\ call.op = "map"
    /\ Len(ds) >= 2
    /\ ds[1] # ds[Len(ds)]
    /\ res.ret.ds[1] # res.ret.ds[Len(ds)]
    /\ Len(res.ret.ds) = Len(ds)

\* ------------------------------------------------- properties of slicing
Max2(a, b) == IF a >= b THEN a ELSE b
Min2(a, b) == IF a <= b THEN a ELSE b
Clip(x, lo, hi) == Max2(lo, Min2(x, hi))
FromEnd(b, n) == IF b < 0 THEN b + n ELSE b

\* the positions (0-based) a slice selects, as a set
Selected(n, sl) ==
    LET step == IF sl.step = None THEN 1 ELSE sl.step[1]
    IN  IF step > 0
        THEN LET lo == IF sl.start = None THEN 0 ELSE Clip(FromEnd(sl.start[1], n), 0, n)
                 hi == IF sl.stop = None THEN n ELSE Clip(FromEnd(sl.stop[1], n), 0, n)
             IN  {i \in lo..(hi - 1) : (i - lo) % step = 0}
        ELSE LET hi == IF sl.start = None THEN n - 1
                       ELSE Clip(FromEnd(sl.start[1], n), 0 - 1, n - 1)
                 lo == IF sl.stop = None THEN 0 - 1
                       ELSE Clip(FromEnd(sl.stop[1], n), 0 - 1, n - 1)
             IN  {i \in (lo + 1)..hi : (hi - i) % (0 - step) = 0}

\* the elements at a set of positions, in ascending order of position
RECURSIVE Ascending(_, _)
Ascending(s, P) ==
    IF P = {} THEN <<>>
    ELSE LET m == CHOOSE i \in P : \A j \in P : i <= j
         IN  <<s[m + 1]>> \o Ascending(s, P \ {m})

\* what s[start:stop:step] holds: the selected elements, front to back for a
\* positive step and back to front for a negative one
Sliced(s, sl) ==
    IF sl.step # None /\ sl.step[1] < 0
    THEN reversed(Ascending(s, Selected(Len(s), sl)))
    ELSE Ascending(s, Selected(Len(s), sl))

\* C11 as stated: slicing never raises, whatever start, stop and step are.
C11_SlicingNeverRaises ==
    call.op = "getslice" => res.err = "none"

\* C11 amended: a slice whose step is absent or not 0 never raises and
\* returns a sequence of the receiver's kind holding the selected elements,
\* bounds clamped to the valid range and a negative step traversing in
\* reverse; a step of 0 raises ValueError.
C11_SlicingRaisesOnlyOnZeroStep ==
    call.op = "getslice" =>
        /\ call.sl.step = Some(0) => res.err = "ValueError"
        /\ call.sl.step # Some(0) =>
               /\ res.err = "none"
               /\ res.ret.kind = kind
               /\ res.ret.ds = Sliced(ds, call.sl)

\* a slice whose stop lies beyond the end was clipped to a non-empty result
C11_Witness ==
    /\ call.op = "getslice"
    /\ Len(ds) >= 1
    /\ call.sl.stop # None
    /\ call.sl.stop[1] > Len(ds)
    /\ call.sl.start = Some(0 - 1)
    /\ call.sl.step = None
    /\ res.err = "none"
    /\ res.ret.ds = <<ds[Len(ds)]>>

\* ------------------------------------------------- construction
\* C12: a constructor call without arguments gives the empty sequence, with
\* one iterable the iterable's elements in iteration order, and with more
\* than one positional argument it raises ValueError and gives no instance.
C12_ConstructionArity ==
    call.op = "new" =>
        /\ Len(call.args) = 0 =>
               res.err = "none" /\ res.ret.kind = kind /\ res.ret.ds = <<>>
        /\ Len(call.args) = 1 =>
               /\ res.err = "none"
               /\ res.ret.kind = kind
               /\ Len(res.ret.ds) = Len(call.args[1])
               /\ \A i \in 1..Len(call.args[1]) : res.ret.ds[i] = call.args[1][i]
        /\ Len(call.args) > 1 =>
               res.err = "ValueError" /\ res.ret = NoInstance

\* a constructor call with two arguments was refused
C12_Witness ==
    /\ call.op = "new"
    /\ Len(call.args) = 2
    /\ call.args[1] # call.args[2]
    /\ res.err = "ValueError"

\* ------------------------------------------------- concatenation, repetition
\* C13: s + other raises ValueError when other is not of the receiver's
\* kind; otherwise it returns a sequence of that kind with len(s)+len(other)
\* elements, those of s followed by those of other, so s + empty == s and
\* empty + s == s.
C13_AddConcatenatesSameKind ==
    call.op = "add" =>
        /\ call.other.kind # kind => res.err = "ValueError" /\ res.ret = NoInstance
        /\ call.other.kind = kind =>
               /\ res.err = "none"
               /\ res.ret.kind = kind
               /\ Len(res.ret.ds) = Len(ds) + Len(call.other.ds)
               /\ \A i \in 1..Len(ds) : res.ret.ds[i] = ds[i]
               /\ \A j \in 1..Len(call.other.ds) : res.ret.ds[Len(ds) + j] = call.other.ds[j]
               /\ call.other.ds = <<>> => res.ret.ds = ds
               /\ ds = <<>> => res.ret.ds = call.other.ds

\* a sum of two non-empty sequences of one kind with different elements
C13_Witness ==
    /\ call.op = "add"
    /\ call.other.kind = kind
    /\ ds # <<>>
    /\ call.other.ds # <<>>
    /\ ds[1] # call.other.ds[1]
    /\ res.err = "none"
    /\ Len(res.ret.ds) = Len(ds) + Len(call.other.ds)

\* C14: s * n and n * s are equal; for n <= 0 they are the empty sequence
\* and no error, for n > 0 they hold n * len(s) elements, s repeated n times.
C14_RepetitionBothSides ==
    call.op \in {"mul", "rmul", "ituple.mul", "ituple.rmul"} =>
        /\ res.err = "none"
        /\ res.ret.kind = IF call.op \in {"mul", "rmul"} THEN kind ELSE "ITuple"
        /\ call.num <= 0 => res.ret.ds = <<>>
        /\ call.num > 0 =>
               /\ Len(res.ret.ds) = call.num * Len(ds)
               /\ \A i \in 1..(call.num * Len(ds)) :
                      res.ret.ds[i] = IF call.op \in {"mul", "rmul"}
                                      THEN ds[((i - 1) % Len(ds)) + 1]
                                      ELSE IntCell(ds[((i - 1) % Len(ds)) + 1])
        /\ call.op \in {"mul", "rmul"} =>
               res = mul(kind, ds, call.num) /\ res = rmul(kind, ds, call.num)
        /\ call.op \in {"ituple.mul", "ituple.rmul"} =>
               res = ituple_mul(ds, call.num) /\ res = ituple_rmul(ds, call.num)

\* a product from the left with a negative factor gave the empty sequence
C14_Witness ==
    /\ call.op \in {"rmul", "ituple.rmul"}
    /\ call.num < 0
    /\ ds # <<>>
    /\ res.err = "none"
    /\ res.ret.ds = <<>>

\* ------------------------------------------------- bind's policy argument
\* C15: bind with a policy that is none of CONCAT, MERGE, EXHAUST raises
\* ValueError and returns no sequence; with one of the three it does not
\* raise.
C15_UnknownPolicyRaises ==
    call.op = "bind" =>
        /\ call.type \notin (FM \cup {"absent"}) =>
               res.err = "ValueError" /\ res.ret = NoInstance
        /\ call.type \in FM => res.err = "none" /\ res.ret.kind = kind

\* a bind of a non-empty receiver with an unknown policy raised
C15_Witness ==
    /\ call.op = "bind"
    /\ call.type \notin (FM \cup {"absent"})
    /\ ds # <<>>
    /\ res.err = "ValueError"

\* ------------------------------------------------- hashing
\* C16: an instance whose elements are all hashable (the elements here are
\* integers) is itself hashable: hash() returns a value, the same for equal
\* instances, so that the instance can be a set member or a dict key.
C16_HashableWhenElementsAre ==
    call.op \in {"hash", "ituple.hash"} =>
        /\ res.err = "none"
        /\ res.val # None

\* ------------------------------------------------- properties of Box
\* C17 as stated: put succeeds and stores the item exactly when the Box was
\* empty, fails with ValueError exactly when it was not, and after a put
\* that succeeded, of any item, a second put of any item fails with
\* ValueError.
C17_PutExclusive ==
    call.op = "box.put" =>
        /\ call.pre = Sentinel => (res.err = "none" /\ item = call.x)
        /\ call.pre # Sentinel => (res.err = "ValueError" /\ item = call.pre)
        /\ res.err = "none" =>
               \A y \in ItemArgs : box_put(item, y).res.err = "ValueError"

\* C17 amended: put succeeds and stores the item exactly when the Box was
\* empty and fails with ValueError exactly when it was not; after a put
\* that succeeded, of an item other than the empty-marker Sentinel('Box'),
\* a second put of any item fails with ValueError, while a put of the
\* empty-marker leaves the Box empty.
C17_PutExclusiveButForSentinel ==
    call.op = "box.put" =>
        /\ call.pre = Sentinel => (res.err = "none" /\ item = call.x)
        /\ call.pre # Sentinel => (res.err = "ValueError" /\ item = call.pre)
        /\ (res.err = "none" /\ call.x # Sentinel) =>
               \A y \in ItemArgs : box_put(item, y).res.err = "ValueError"
        /\ (res.err = "none" /\ call.x = Sentinel) =>
               \A y \in ItemArgs : box_put(item, y).res.err = "none"

C17_Witness ==
    /\ call.op = "box.put"
    /\ call.pre = Sentinel
    /\ call.x = IntItem(1)
    /\ res.err = "none"
    /\ item = IntItem(1)
    /\ box_put(item, IntItem(2)).res.err = "ValueError"

\* C18: pop on an empty Box fails with ValueError; pop on a Box holding x
\* returns x and leaves the Box empty, so that a pop right after it fails
\* and a put right after it succeeds.
C18_PopEmpties ==
    call.op = "box.pop" =>
        /\ call.pre = Sentinel => (res.err = "ValueError" /\ item = Sentinel)
        /\ call.pre # Sentinel =>
               /\ res.err = "none"
               /\ res.val = Some(call.pre)
               /\ item = Sentinel
               /\ box_pop(item).res.err = "ValueError"
               /\ \A y \in ItemArgs : box_put(item, y).res.err = "none"

C18_Witness ==
    /\ call.op = "box.pop"
    /\ call.pre = NoneItem
    /\ res.err = "none"
    /\ res.val = Some(NoneItem)
    /\ item = Sentinel

\* C19: get(alt) on a Box holding x returns x whatever alt is; on an empty
\* Box it returns alt when one is supplied and fails with ValueError when
\* none is; get never changes what the Box holds.
C19_GetPrefersContent ==
    call.op = "box.get" =>
        /\ item = call.pre
        /\ call.pre # Sentinel => (res.err = "none" /\ res.val = Some(call.pre))
        /\ (call.pre = Sentinel /\ call.x # Sentinel) =>
               (res.err = "none" /\ res.val = Some(call.x))
        /\ (call.pre = Sentinel /\ call.x = Sentinel) => res.err = "ValueError"

C19_Witness ==
    /\ call.op = "box.get"
    /\ call.pre = IntItem(1)
    /\ call.x = IntItem(2)
    /\ res.val = Some(IntItem(1))
    /\ item = IntItem(1)

\* C20: in every state reached by construction, put, pop, get, map and
\* bind the Box holds no item or one item, its len is 0 or 1, and it is
\* truthy exactly when its len is 1, exactly when a pop would succeed.
C20_CapacityInvariant ==
    /\ item \in ItemArgs
    /\ Len(box_iter(item)) \in {0, 1}
    /\ box_len(item) \in {0, 1}
    /\ box_len(item) = Len(box_iter(item))
    /\ box_bool(item) <=> box_len(item) = 1
    /\ box_len(item) = 1 <=> box_pop(item).res.err = "none"
    /\ call.op = "box.len" => res.val = Some(IntItem(box_len(item)))
    /\ call.op = "box.bool" => res.val = Some(BoolItem(box_len(item) = 1))

C20_Witness ==
    /\ call.op = "box.len"
    /\ item = NoneItem
    /\ res.val = Some(IntItem(1))
    /\ box_pop(item).res.err = "none"

\* C21: map and bind of a Box return a Box and leave what the receiver
\* holds as it was; on an empty receiver both return an empty Box and f is
\* not called; on a receiver holding x, map returns a Box holding f(x) and
\* bind returns the Box f(x), f being called once.
C21_MapBindReturnNewBox ==
    call.op \in {"box.map", "box.bind"} =>
        /\ item = call.pre
        /\ res.err = "none"
        /\ res.ret.kind = "Box"
        /\ call.pre = Sentinel => (res.ret = BoxOf(Sentinel) /\ res.calls = 0)
        /\ (call.pre # Sentinel /\ call.op = "box.map") =>
               (res.ret.ds = <<ApplyItem(call.fn, call.pre)>> /\ res.calls = 1)
        /\ (call.pre # Sentinel /\ call.op = "box.bind") =>
               (res.ret = ApplyBox(call.fn, call.pre) /\ res.calls = 1)

C21_Witness ==
    /\ call.op = "box.map"
    /\ call.fn = "succ"
    /\ call.pre = IntItem(1)
    /\ item = IntItem(1)
    /\ res.ret = BoxOf(IntItem(2))

\* C22: a value other than the empty-marker, None included, put into a Box
\* by Box(value) or by put on an empty Box is reported as present (truthy,
\* len 1, get returns it); the empty-marker put in by either way raises
\* nothing and leaves a Box that is falsy, of len 0, whose pop fails, whose
\* put succeeds and that equals Box().
C22_OnlySentinelIsAbsence ==
    (call.op = "box.init" \/ (call.op = "box.put" /\ call.pre = Sentinel)) =>
        /\ res.err = "none"
        /\ item = call.x
        /\ call.x # Sentinel =>
               /\ box_bool(item)
               /\ box_len(item) = 1
               /\ box_iter(item) = <<call.x>>
               /\ box_get(item, Sentinel).res.val = Some(call.x)
        /\ call.x = Sentinel =>
               /\ ~box_bool(item)
               /\ box_len(item) = 0
               /\ box_iter(item) = <<>>
               /\ box_pop(item).res.err = "ValueError"
               /\ \A y \in ItemArgs : box_put(item, y).res.err = "none"
               /\ box_eq(item, BoxOf(box_init(Sentinel)))

C22_Witness ==
    /\ call.op = "box.put"
    /\ call.pre = Sentinel
    /\ call.x = Sentinel
    /\ res.err = "none"
    /\ ~box_bool(item)

\* C27: a Box call that fails leaves the Box as it was: after put on a
\* non-empty Box has raised, the Box holds its earlier item and not the
\* rejected one; after pop or get on an empty Box has raised, the Box is
\* empty; and the same call made again fails again.
C27_FailureLeavesBoxUnchanged ==
    (call.op \in {"box.put", "box.pop", "box.get"} /\ res.err # "none") =>
        /\ res.err = "ValueError"
        /\ item = call.pre
        /\ call.op = "box.put" =>
               (item # Sentinel /\ box_put(item, call.x).res.err = "ValueError")
        /\ call.op = "box.pop" =>
               (item = Sentinel /\ box_pop(item).res.err = "ValueError")
        /\ call.op = "box.get" =>
               (item = Sentinel /\ box_get(item, call.x).res.err = "ValueError")

C27_Witness ==
    /\ call.op = "box.put"
    /\ call.pre = IntItem(1)
    /\ call.x = IntItem(2)
    /\ res.err = "ValueError"
    /\ item = IntItem(1)

\* ------------------------------------------------- relations between calls
IsPrefix(a, b) == Len(a) <= Len(b) /\ SubSeq(b, 1, Len(a)) = a
Count(s, v) == Cardinality({i \in DOMAIN s : s[i] = v})
SameBag(a, b) ==
    /\ Len(a) = Len(b)
    /\ \A i \in DOMAIN a : Count(a, a[i]) = Count(b, a[i])
Values(s) == {s[i] : i \in DOMAIN s}

BoundAs(type) == bind(kind, ds, call.fn, type)

\* C25: for the receiver and the function of a bind, the MERGE result is a
\* prefix of the EXHAUST result, the two are equal when all sub-sequences
\* have the same length, and the EXHAUST result is a permutation of the
\* CONCAT result.
C25_MergePrefixExhaustPermutesConcat ==
    BoundWith(FM \cup {"absent"}) =>
        /\ res = BoundAs(IF call.type = "absent" THEN "CONCAT" ELSE call.type)
        /\ BoundAs("MERGE").err = "none"
        /\ BoundAs("EXHAUST").err = "none"
        /\ BoundAs("CONCAT").err = "none"
        /\ IsPrefix(BoundAs("MERGE").ret.ds, BoundAs("EXHAUST").ret.ds)
        /\ MinSubLen = MaxSubLen => BoundAs("MERGE").ret.ds = BoundAs("EXHAUST").ret.ds
        /\ SameBag(BoundAs("EXHAUST").ret.ds, BoundAs("CONCAT").ret.ds)

\* a merge that is a proper, non-empty prefix of an exhaust that is not the
\* concatenation
C25_Witness ==
    /\ BoundWith({"MERGE"})
    /\ BindOut # <<>>
    /\ Len(BindOut) < Len(BoundAs("EXHAUST").ret.ds)
    /\ IsPrefix(BindOut, BoundAs("EXHAUST").ret.ds)
    /\ BoundAs("EXHAUST").ret.ds # BoundAs("CONCAT").ret.ds
    /\ BindOut # SubSeq(BoundAs("CONCAT").ret.ds, 1, Len(BindOut))

\* C26: with a start, the last element of accummulate(f, start) is
\* foldl(f, start); on a non-empty receiver the last element of
\* accummulate(f) is foldl(f).
C26_AccummulateEndsInFoldl ==
    /\ (call.op = "accummulate" /\ (call.start # None \/ ds # <<>>)) =>
           /\ res.err = "none"
           /\ AccOut # <<>>
           /\ foldl(ds, call.fn, call.start, None).err = "none"
           /\ Some(AccOut[Len(AccOut)]) = foldl(ds, call.fn, call.start, None).val
    /\ (call.op = "foldl" /\ (call.start # None \/ ds # <<>>)) =>
           /\ res.err = "none"
           /\ accummulate(kind, ds, call.fn, call.start).err = "none"
           /\ accummulate(kind, ds, call.fn, call.start).ret.ds # <<>>
           /\ res.val = Some(accummulate(kind, ds, call.fn, call.start).ret.ds[
                                 Len(accummulate(kind, ds, call.fn, call.start).ret.ds)])

\* an accummulate from the start value 10 over several elements whose last
\* partial fold is neither the start nor what a start-less fold gives
C26_Witness ==
    /\ call.op = "accummulate"
    /\ call.start = Some(10)
    /\ call.fn = "sub"
    /\ Len(ds) >= 2
    /\ AccOut[Len(AccOut)] # 10
    /\ Some(AccOut[Len(AccOut)]) # foldl(ds, call.fn, None, None).val
    /\ Some(AccOut[Len(AccOut)]) = foldl(ds, call.fn, call.start, None).val

\* ------------------------------------------------- ITuple and the wrappers
ITupleOps == {"ituple.map", "ituple.getslice", "ituple.copy", "ituple.add",
              "ituple.accummulate", "ituple.bind"}

\* the same call made on the wrapper of class k that holds the same
\* elements; the right operand of + is then of class k as well
OnWrapper(k) ==
    CASE call.op = "ituple.map"         -> map(k, ds, call.fn)
      [] call.op = "ituple.getslice"    -> getslice(k, ds, call.sl)
      [] call.op = "ituple.copy"        -> copy(k, ds)
      [] call.op = "ituple.add"         ->
             add(k, ds, [call.other EXCEPT
                             !.kind = IF @ = "ITuple" THEN k ELSE @])
      [] call.op = "ituple.accummulate" -> accummulate(k, ds, call.fn, call.start)
      [] call.op = "ituple.bind"        ->
             bind(k, ds, call.fn, IF call.type = "absent" THEN "CONCAT" ELSE call.type)

\* C23: map, slicing, copy, +, accummulate and bind (each policy) on an
\* ITuple return a result with the same length and the same elements in the
\* same order as the same call on an IFTuple or a Luple holding the same
\* elements.
C23_ITupleAgreesWithWrappers ==
    call.op \in ITupleOps =>
        \A k \in Kinds :
            /\ res.err = OnWrapper(k).err
            /\ res.err = "none" =>
                   /\ Len(res.ret.ds) = Len(OnWrapper(k).ret.ds)
                   /\ res.ret.ds = Cells(OnWrapper(k).ret.ds)

\* C24: ituple(v1, ..., vn) returns an ITuple of length n holding v1, ...,
\* vn in order, equal to ITuple(v1, ..., vn); ituple() returns the empty
\* ITuple.
C24_FactoryHoldsItsArguments ==
    call.op = "ituple" =>
        /\ res.err = "none"
        /\ res.ret.kind = "ITuple"
        /\ Len(res.ret.ds) = Len(call.args[1])
        /\ res.ret.ds = Cells(call.args[1])
        /\ res = ituple_new(Cells(call.args[1]))
        /\ call.args[1] = <<>> => res.ret.ds = <<>>


====
